---- MODULE Spec2Model ----
(***************************************************************************)
(* A model of the graphite graph engine (src/graph/src/lib.rs) over the    *)
(* vocabulary generated by its schema compiler (src/graph/build.rs).       *)
(*                                                                         *)
(* Strings are sequences of symbols: a kind name is one symbol, ":" is one *)
(* symbol, and a token is a sequence of symbols.  The store is RocksDB's   *)
(* TransactionDB: a set of column families and a map from (family, key) to *)
(* the encoded bytes of a record.  add_edge is the one operation that is   *)
(* not a single store access, so it is modelled step by step, each call    *)
(* running on a thread of its own; every other operation is one step.      *)
(***************************************************************************)
EXTENDS Naturals, Sequences, FiniteSets, TLC

\* ------------------------------------------------------------------ bounds
\* The longest ref list a caller lets a node object grow to.
MaxRefs == 2
\* The longest token a caller passes to an identifier constructor.
MaxTokenLen == 3

\* ------------------------------------------------------------------ schema
\* schema.yml as read by build.rs: the spec's concrete scenario.
schema ==
  [ nodes |-> << [name |-> "Person"], [name |-> "Company"] >>,
    edges |-> << [ name |-> "EmploysAt",
                   connections |->
                     << [from |-> "Person", to |-> "Company", name |-> "Employment"] >> ] >> ]

Range(s) == { s[i] : i \in DOMAIN s }

NodeKinds == { n.name : n \in Range(schema.nodes) }
EdgeKinds == { e.name : e \in Range(schema.edges) }

\* ----------------------------------------------------------------- strings
Colon == ":"

\* A one-symbol string: stringify!(#struct_name).to_string()
family_name(kind) == << kind >>

\* format!(concat!(stringify!(#struct_name), ":{}"), token)
format_id(kind, token) == << kind, Colon >> \o token

\* node_id.split(':').next(): the text before the first ':', the whole string
\* when there is none.  Always Some.
\* A faulty split: the text before the last ':'.
rsplit_next(s) ==
  IF \E i \in DOMAIN s : s[i] = Colon
  THEN SubSeq(s, 1, (CHOOSE i \in DOMAIN s :
                       s[i] = Colon /\ \A j \in DOMAIN s : s[j] = Colon => j <= i) - 1)
  ELSE s
RECURSIVE split_next(_)
split_next(s) ==
  IF s = << >> THEN << >>
  ELSE IF Head(s) = Colon THEN << >>
  ELSE << Head(s) >> \o split_next(Tail(s))

\* --------------------------------------------------- schema compiler (build.rs)
\* A faulty push: made only onto a list with no element.
push_if_empty(v, x) == IF v # << >> THEN v ELSE Append(v, x)
\* if !v.contains(x) { v.push(x) }
push_if_absent(v, x) == IF x \in Range(v) THEN v ELSE Append(v, x)

\* node_edge_types.entry(k).or_insert((Vec::new(), Vec::new()))
entry_or_insert(m, k) ==
  IF k \in DOMAIN m THEN m
  ELSE [ x \in DOMAIN m \cup {k} |-> IF x = k THEN << << >>, << >> >> ELSE m[x] ]

\* One turn of the connection loop: the edge kind becomes an outbound type of
\* the rule's `from` and an inbound type of its `to`.
scan_connection(m, edge_name, c) ==
  LET m1 == entry_or_insert(m, c.from)
      m2 == [ m1 EXCEPT ![c.from] = << @[1], push_if_absent(@[2], edge_name) >> ]
      m3 == entry_or_insert(m2, c.to)
  IN  [ m3 EXCEPT ![c.to] = << push_if_absent(@[1], edge_name), @[2] >> ]

RECURSIVE scan_connections(_, _, _)
scan_connections(m, edge_name, cs) ==
  IF cs = << >> THEN m
  ELSE scan_connections(scan_connection(m, edge_name, Head(cs)), edge_name, Tail(cs))

RECURSIVE scan_edges(_, _)
scan_edges(m, es) ==
  IF es = << >> THEN m
  ELSE scan_edges(scan_connections(m, Head(es).name, Head(es).connections), Tail(es))

\* The HashMap node kind -> (inbound edge kinds, outbound edge kinds) that the
\* edge loop leaves behind.
node_edge_types(sch) == scan_edges(<< >>, sch.edges)

\* The variants of the generated <N>InEdge and <N>OutEdge enums.
in_edge_types(sch, n)  == node_edge_types(sch)[n][1]
out_edge_types(sch, n) == node_edge_types(sch)[n][2]

\* The generated families(): build.rs pushes a name inside the edge loop only.
RECURSIVE edge_names(_)
edge_names(es) == IF es = << >> THEN << >> ELSE << Head(es).name >> \o edge_names(Tail(es))

families(sch) == edge_names(sch.edges)
Families == families(schema)

\* A faulty generator: each variant holds (#to, #from).
connection_variants_swapped(sch, e) ==
  LET decl == CHOOSE d \in Range(sch.edges) : d.name = e
  IN  { << c.name, c.to, c.from >> : c \in Range(decl.connections) }
\* The variants of the generated <E>Connection enum: one per rule.
connection_variants(sch, e) ==
  LET decl == CHOOSE d \in Range(sch.edges) : d.name = e
  IN  { << c.name, c.from, c.to >> : c \in Range(decl.connections) }

\* ------------------------------------------------------- generated records
\* <N>::new(Some(token), fields): empty ref lists.
Node_new(kind, token, f) ==
  [ kind |-> kind, id |-> format_id(kind, token),
    in_edge_ids |-> << >>, out_edge_ids |-> << >>, fields |-> f ]

\* <E>::new(Some(token), connection, fields)
Edge_new(kind, token, connection, f) ==
  [ kind |-> kind, id |-> format_id(kind, token), connection |-> connection, fields |-> f ]

\* A faulty retain: only the first element equal to x is dropped.
RECURSIVE retain_ne_first(_, _)
retain_ne_first(v, x) ==
  IF v = << >> THEN << >>
  ELSE IF Head(v) = x THEN Tail(v)
  ELSE << Head(v) >> \o retain_ne_first(Tail(v), x)
\* v.retain(|e| e != x): the elements that differ from x, in their order.
RECURSIVE retain_ne(_, _)
retain_ne(v, x) ==
  IF v = << >> THEN << >>
  ELSE IF Head(v) # x THEN << Head(v) >> \o retain_ne(Tail(v), x)
  ELSE retain_ne(Tail(v), x)

remove_in_edge_id(node, edge_id)  == [ node EXCEPT !.in_edge_ids = retain_ne(@, edge_id) ]

remove_out_edge_id(node, edge_id) == [ node EXCEPT !.out_edge_ids = retain_ne(@, edge_id) ]
add_in_edge_id(node, edge_id)  == [ node EXCEPT !.in_edge_ids = Append(@, edge_id) ]

add_out_edge_id(node, edge_id) == [ node EXCEPT !.out_edge_ids = Append(@, edge_id) ]

\* ------------------------------------------------------- codec (rmp_serde)
\* A struct is written as the array of its fields, in declaration order and
\* without its type name; an id newtype is written as its string.
encode_node(n) == << n.id, n.in_edge_ids, n.out_edge_ids, n.fields >>
encode_edge(e) == << e.id, << e.connection.name, e.connection.from, e.connection.to >>, e.fields >>

\* from_slice::<T>: the array must have T's number of fields.
decodes_as_node(bytes) == Len(bytes) = 4
decodes_as_edge(bytes) == Len(bytes) = 3

\* The node types S and R that type-check against the edge: add_out_edge_id
\* takes S::ValidOutEdgeId and add_in_edge_id takes R::ValidInEdgeId.
ValidOut ==
  { << n, e >> \in NodeKinds \X EdgeKinds :
      n \in DOMAIN node_edge_types(schema) /\ e \in Range(out_edge_types(schema, n)) }
ValidIn ==
  { << n, e >> \in NodeKinds \X EdgeKinds :
      n \in DOMAIN node_edge_types(schema) /\ e \in Range(in_edge_types(schema, n)) }

\* from_slice::<N> for the node type N: besides the number of fields, every
\* element of the two ref lists must be a variant of N's ValidInEdgeId and
\* ValidOutEdgeId enums (a list with no element decodes under any of them).
deserializes_as(kind, bytes) ==
  /\ decodes_as_node(bytes)
  /\ \A r \in Range(bytes[2]) : << kind, split_next(r)[1] >> \in ValidIn
  /\ \A r \in Range(bytes[3]) : << kind, split_next(r)[1] >> \in ValidOut

\* A faulty decoder: the two ref lists are read back in the wrong order.
decode_node_swapped(kind, bytes) ==
  [ kind |-> kind, id |-> bytes[1],
    in_edge_ids |-> bytes[3], out_edge_ids |-> bytes[2], fields |-> bytes[4] ]
decode_node(kind, bytes) ==
  [ kind |-> kind, id |-> bytes[1],
    in_edge_ids |-> bytes[2], out_edge_ids |-> bytes[3], fields |-> bytes[4] ]

decode_edge(kind, bytes) ==
  [ kind |-> kind, id |-> bytes[1],
    connection |-> [ name |-> bytes[2][1], from |-> bytes[2][2], to |-> bytes[2][3] ],
    fields |-> bytes[3] ]

\* ------------------------------------------------------------------ results
Ok(v)  == [ tag |-> "Ok", val |-> v ]
Err(e) == [ tag |-> "Err", val |-> e ]
Unit   == "()"

\* ------------------------------------------------------- store (rocksdb)
\* A store is a function from the (family, key) pairs that hold a value to
\* the bytes they hold.
Some(v) == [ some |-> TRUE, val |-> v ]
None    == [ some |-> FALSE, val |-> << >> ]

get_cf(s, cf, key) == IF << cf, key >> \in DOMAIN s THEN Some(s[<< cf, key >>]) ELSE None

\* A faulty put: a key that holds a value keeps it.
put_cf_if_absent(s, cf, key, v) ==
  [ x \in DOMAIN s \cup { << cf, key >> } |-> IF x \in DOMAIN s THEN s[x] ELSE v ]
put_cf(s, cf, key, v) ==
  [ x \in DOMAIN s \cup { << cf, key >> } |-> IF x = << cf, key >> THEN v ELSE s[x] ]

\* A faulty delete: the key is left in the store.
delete_cf_dropped(s, cf, key) == s
delete_cf(s, cf, key) == [ x \in DOMAIN s \ { << cf, key >> } |-> s[x] ]

drop_cf(s, cf) == [ x \in { y \in DOMAIN s : y[1] # cf } |-> s[x] ]

DefaultFamily == << "default" >>

\* How a call reaches the store with its write: through a transaction it
\* begins (db.transaction(), txn.put_cf or txn.delete_cf, txn.commit()), by a
\* put on the database handle itself (self.db.put_cf), or not at all.
InTransaction == "txn"
OnDatabase    == "db"
NoWrite       == "none"

\* ------------------------------------------------------------------- inputs
\* The tokens, node objects, edge objects and threads the callers use.
Tokens  == { << "1" >>, << "2" >> }
Threads == { "t1", "t2" }

\* (kind, token, field value) of the node objects callers construct.
NodeInputs == { << "Person", << "1" >>, "Ada" >>, << "Company", << "1" >>, "Acme" >> }

FreshNodes == { Node_new(i[1], i[2], i[3]) : i \in NodeInputs }

\* The connection values callers build from the generated <E>Connection enum:
\* any person as source, the company as target.
Connections(e) ==
  UNION { { [ name |-> v[1], from |-> format_id(v[2], tf), to |-> format_id(v[3], << "1" >>) ] :
              tf \in Tokens } :
          v \in connection_variants(schema, e) }

EdgeObjects ==
  UNION { { Edge_new(e, t, c, "1843") : t \in Tokens, c \in Connections(e) } : e \in EdgeKinds }

\* An edge id is a typed value (<E>Id): its family comes from its type.
EdgeIds == { [ kind |-> e.kind, s |-> e.id ] : e \in EdgeObjects }

\* The identifier strings callers pass to get_node and remove_node: the
\* well-formed ones and two with no separator.
NodeIdStrings == { format_id(k, t) : k \in NodeKinds, t \in Tokens }
EdgeIdStrings == { e.id : e \in EdgeObjects }
Malformed     == { << "Person" >>, << "1" >> }
IdStrings     == { n.id : n \in FreshNodes } \cup EdgeIdStrings \cup Malformed

VARIABLES
  open,    \* a Graph value is alive (the database is open)
  cfs,     \* the column families of the database at the path; {} when there is none
  store,   \* the committed contents: (family, key) -> bytes
  calls,   \* per thread, the add_edge call it is in the middle of
  last     \* the latest call, with its argument and (once it has returned) its result

vars == << open, cfs, store, calls, last >>

Idle == [ pc |-> "idle" ]

quiet == \A t \in Threads : calls[t].pc = "idle"

\* The keys a transaction holds a lock on: the edge key of every add_edge call
\* between its txn.put_cf and its commit or return.
locked(cs) ==
  { << family_name(cs[t].edge.kind), cs[t].edge.id >> : t \in { u \in Threads : cs[u].pc # "idle" } }

\* The three keys of an add_edge call.
call_keys(edge, from_node, to_node) ==
  { << family_name(edge.kind), edge.id >>,
    << family_name(from_node.kind), from_node.id >>,
    << family_name(to_node.kind), to_node.id >> }

AllFamilies == { DefaultFamily } \cup { family_name(k) : k \in NodeKinds \cup EdgeKinds }

TypeOK ==
  /\ open \in BOOLEAN
  /\ cfs \subseteq AllFamilies
  /\ DOMAIN store \subseteq (cfs \X (NodeIdStrings \cup EdgeIdStrings))
  /\ \A t \in Threads : calls[t].pc \in { "idle", "update_from", "update_to", "commit" }

\* The database at the path before the first Graph::new: none at all, or one
\* left by an earlier run that declared its node kinds with create_node_struct!
\* (node.rs), which creates the family of each: the default family and the
\* node families.
Init ==
  /\ open = FALSE
  /\ cfs \in { {}, { DefaultFamily } \cup { family_name(k) : k \in NodeKinds } }
  /\ store = << >>
  /\ calls = [ t \in Threads |-> Idle ]
  /\ last = [ op |-> "none" ]

\* ------------------------------------------------------------- Graph::new
\* db.create_cf: the store refuses a name that already has a family.  Ok
\* carries the families of the database after the call.
create_cf(c, name) ==
  IF name \in c THEN Err("CreateFamilyError") ELSE Ok(c \cup { name })

\* A faulty ensure: create_cf is called without asking for the handle first.
create_family_unguarded(c, name) == create_cf(c, name)
\* A faulty ensure: the new family takes the place of the others.
create_family_replacing(c, name) ==
  IF name \notin c THEN Ok({ DefaultFamily, name }) ELSE Ok(c)
\* if db.cf_handle(family_name).is_none() { db.create_cf(..)? }; Ok(())
create_family_if_not_exists(c, name) ==
  IF name \notin c THEN create_cf(c, name) ELSE Ok(c)

\* for family in families { graph.create_family_if_not_exists(family)?; }
\* `cfs` is the families of the database when the loop ends or returns.
RECURSIVE ensure_families(_, _)
ensure_families(c, names) ==
  IF names = << >> THEN [ res |-> Ok(Unit), cfs |-> c ]
  ELSE LET r == create_family_if_not_exists(c, family_name(Head(names))) IN
       IF r.tag = "Err" THEN [ res |-> r, cfs |-> c ]
       ELSE ensure_families(r.val, Tail(names))

\* Opens the database (creating it, with its default family, when there is
\* none) and creates a family for every name of families().  When a creation
\* fails the Graph built so far is dropped and the error returned.
Graph_new ==
  /\ ~open
  /\ LET r == ensure_families(IF cfs = {} THEN { DefaultFamily } ELSE cfs, Families) IN
       /\ open' = (r.res.tag = "Ok")
       /\ cfs' = r.cfs
       /\ last' = [ op |-> "new", res |-> r.res ]
  /\ UNCHANGED << store, calls >>

\* The Graph value goes out of scope: the database is closed.
Graph_drop ==
  /\ open /\ quiet
  /\ open' = FALSE
  /\ last' = [ op |-> "drop", res |-> Ok(Unit) ]
  /\ UNCHANGED << cfs, store, calls >>

\* ---------------------------------------------------------------- add_node
\* The node objects a caller passes: freshly constructed, or as read from the
\* store just now.
NodeFamilies == { family_name(k) : k \in NodeKinds }

stored_nodes(s) ==
  { decode_node(x[1][1], s[x]) :
      x \in { y \in DOMAIN s : y[1] \in NodeFamilies /\ decodes_as_node(s[y]) } }

CallerNodes == FreshNodes \cup stored_nodes(store)

\* A faulty add: a key that holds a record is refused.
add_node_if_new(node) ==
  /\ open
  /\ LET fam == family_name(node.kind)
         had == get_cf(store, fam, node.id).some IN
       /\ store' = IF fam \in cfs /\ ~had THEN put_cf(store, fam, node.id, encode_node(node)) ELSE store
       /\ last' = [ op |-> "add_node", arg |-> node, via |-> InTransaction, had |-> had,
                    res |-> IF fam \notin cfs THEN Err("FindFamilyError")
                            ELSE IF had THEN Err("KeyExistsError") ELSE Ok(node) ]
  /\ UNCHANGED << open, cfs, calls >>
\* A faulty add: a family that is missing is created on the way.
add_node_ensuring(node) ==
  /\ open
  /\ cfs' = cfs \cup { family_name(node.kind) }
  /\ store' = put_cf(store, family_name(node.kind), node.id, encode_node(node))
  /\ last' = [ op |-> "add_node", arg |-> node, res |-> Ok(node), via |-> InTransaction,
               had |-> get_cf(store, family_name(node.kind), node.id).some ]
  /\ UNCHANGED << open, calls >>
\* `had` notes whether the key held a record when the call was made.
add_node(node) ==
  /\ open
  /\ LET fam == family_name(node.kind) IN
     IF fam \notin cfs
     THEN /\ last' = [ op |-> "add_node", arg |-> node, res |-> Err("FindFamilyError"), via |-> NoWrite,
                       had |-> FALSE ]
          /\ UNCHANGED << open, cfs, store, calls >>
     ELSE \/ /\ store' = put_cf(store, fam, node.id, encode_node(node))
             /\ last' = [ op |-> "add_node", arg |-> node, res |-> Ok(node), via |-> InTransaction,
                          had |-> get_cf(store, fam, node.id).some ]
             /\ UNCHANGED << open, cfs, calls >>
          \/ /\ last' = [ op |-> "add_node", arg |-> node, res |-> Err("CreateNodeError"), via |-> InTransaction,
                          had |-> get_cf(store, fam, node.id).some ]
             /\ UNCHANGED << open, cfs, store, calls >>

\* ---------------------------------------------------------------- get_node
get_node_result(c, s, kind, node_id) ==
  LET fam == split_next(node_id)
      value == get_cf(s, fam, node_id)
  IN  IF fam \notin c THEN Err("FindFamilyError")
      ELSE IF ~value.some THEN Err("FindKeyError")
      ELSE IF ~deserializes_as(kind, value.val) THEN Err("DecodeError")
      ELSE Ok(decode_node(kind, value.val))

\* A read changes nothing; what it returns is get_node_result in the state it
\* runs in.
get_node(kind, node_id) ==
  /\ open
  /\ get_node_result(cfs, store, kind, node_id).tag \in { "Ok", "Err" }
  /\ UNCHANGED vars

\* ------------------------------------------------------------- remove_node
\* A cascading delete: the edges that name the node go with it.
remove_node_cascading(node_id) ==
  /\ open
  /\ store' = [ x \in { y \in DOMAIN store :
                          /\ y[2] # node_id
                          /\ ~( decodes_as_edge(store[y])
                                /\ node_id \in { store[y][2][2], store[y][2][3] } ) } |-> store[x] ]
  /\ last' = [ op |-> "remove_node", arg |-> node_id, res |-> Ok(Unit),
               had |-> \E y \in DOMAIN store : y[2] = node_id, via |-> InTransaction ]
  /\ UNCHANGED << open, cfs, calls >>

\* The delete runs in a transaction of its own; it cannot take the lock of a
\* key that an add_edge transaction holds (the store reports a timeout).
\* `had` notes whether the key held a record when the call was made.
remove_node(node_id) ==
  /\ open
  /\ LET fam == split_next(node_id) IN
     IF fam \notin cfs
     THEN /\ last' = [ op |-> "remove_node", arg |-> node_id, res |-> Err("FindFamilyError"),
                       had |-> FALSE, via |-> NoWrite ]
          /\ UNCHANGED << open, cfs, store, calls >>
     ELSE \/ /\ << fam, node_id >> \notin locked(calls)
             /\ store' = delete_cf(store, fam, node_id)
             /\ last' = [ op |-> "remove_node", arg |-> node_id, res |-> Ok(Unit),
                          had |-> get_cf(store, fam, node_id).some, via |-> InTransaction ]
             /\ UNCHANGED << open, cfs, calls >>
          \/ /\ last' = [ op |-> "remove_node", arg |-> node_id, res |-> Err("DeleteNodeError"),
                          had |-> get_cf(store, fam, node_id).some, via |-> InTransaction ]
             /\ UNCHANGED << open, cfs, store, calls >>

\* ------------------------------------------------------------- update_node
\* What update_node does to the store and what it returns: a put on the
\* database itself, outside any transaction.
\* A faulty update: a key that holds nothing is left alone.
update_node_store_if_present(c, s, node) ==
  IF << family_name(node.kind), node.id >> \notin DOMAIN s THEN s
  ELSE put_cf(s, family_name(node.kind), node.id, encode_node(node))
\* A faulty update: the write is made without looking the family up.
update_node_store_unchecked(c, s, node) ==
  put_cf(s, family_name(node.kind), node.id, encode_node(node))
update_node_store(c, s, node) ==
  IF family_name(node.kind) \notin c THEN s
  ELSE put_cf(s, family_name(node.kind), node.id, encode_node(node))

update_node_result(c, node) ==
  IF family_name(node.kind) \notin c THEN Err("FindFamilyError") ELSE Ok(Unit)

update_node(node) ==
  /\ open
  /\ \/ /\ store' = update_node_store(cfs, store, node)
        /\ last' = [ op |-> "update_node", arg |-> node, res |-> update_node_result(cfs, node),
                     via |-> IF update_node_result(cfs, node).tag = "Ok" THEN OnDatabase ELSE NoWrite ]
        /\ UNCHANGED << open, cfs, calls >>
     \/ /\ family_name(node.kind) \in cfs
        /\ last' = [ op |-> "update_node", arg |-> node, res |-> Err("UpdateNodeError"), via |-> OnDatabase ]
        /\ UNCHANGED << open, cfs, store, calls >>

\* ---------------------------------------------------------------- add_edge

\* A faulty lookup: a handle is returned for any name.
cf_handle_any(c, name) == TRUE
\* self.db.cf_handle(&edge_family_name): Some when the family exists.
cf_handle(c, name) == name \in c

\* What a call leaves in `last`: its edge, the ids of its two node objects,
\* its result and, when it failed, what its three keys held when it was called;
\* when it succeeded, which of its three keys held nothing when it was called.
Pending == [ tag |-> "Pending", val |-> Unit ]

returned(c, result) ==
  [ op |-> "add_edge", edge |-> c.edge, from_id |-> c.from_node.id, to_id |-> c.to_node.id,
    res |-> result, pre |-> IF result.tag = "Err" THEN c.pre ELSE << >>,
    absent |-> IF result.tag = "Ok" THEN { k \in DOMAIN c.pre : ~c.pre[k].some } ELSE {} ]

\* Lines 217-236: the family lookup, txn.put_cf of the edge (buffered in the
\* transaction, which takes the lock of the edge key), and the two pushes on
\* the caller's node objects.
add_edge_begin(t, edge, from_node, to_node) ==
  /\ open
  /\ calls[t].pc = "idle"
  /\ << from_node.kind, edge.kind >> \in ValidOut /\ << to_node.kind, edge.kind >> \in ValidIn
  /\ Len(from_node.out_edge_ids) < MaxRefs /\ Len(to_node.in_edge_ids) < MaxRefs
  /\ LET efam == family_name(edge.kind)
         ks == call_keys(edge, from_node, to_node)
         call == [ pc |-> "update_from",
                   edge |-> edge,
                   from_node |-> add_out_edge_id(from_node, edge.id),
                   to_node |-> add_in_edge_id(to_node, edge.id),
                   pre |-> [ k \in ks |-> get_cf(store, k[1], k[2]) ] ]
     IN
     IF ~cf_handle(cfs, efam)
     THEN /\ last' = returned(call, Err("EdgeFamilyError"))
          /\ UNCHANGED << open, cfs, store, calls >>
     ELSE \/ /\ << efam, edge.id >> \notin locked(calls)
             /\ calls' = [ calls EXCEPT ![t] = call ]
             /\ last' = returned(call, Pending)
             /\ UNCHANGED << open, cfs, store >>
          \/ /\ last' = returned(call, Err("CreateEdgeError"))
             /\ UNCHANGED << open, cfs, store, calls >>

\* Line 238: self.update_node(&from_node)?
add_edge_update_from(t) ==
  /\ calls[t].pc = "update_from"
  /\ LET node == calls[t].from_node
         r == update_node_result(cfs, node) IN
     \/ /\ store' = update_node_store(cfs, store, node)
        /\ IF r.tag = "Ok"
           THEN /\ calls' = [ calls EXCEPT ![t].pc = "update_to" ]
                /\ UNCHANGED last
           ELSE /\ calls' = [ calls EXCEPT ![t] = Idle ]
                /\ last' = returned(calls[t], r)
        /\ UNCHANGED << open, cfs >>
     \/ /\ r.tag = "Ok"
        /\ calls' = [ calls EXCEPT ![t] = Idle ]
        /\ last' = returned(calls[t], Err("UpdateNodeError"))
        /\ UNCHANGED << open, cfs, store >>

\* Line 239: self.update_node(&to_node)?
add_edge_update_to(t) ==
  /\ calls[t].pc = "update_to"
  /\ LET node == calls[t].to_node
         r == update_node_result(cfs, node) IN
     \/ /\ store' = update_node_store(cfs, store, node)
        /\ IF r.tag = "Ok"
           THEN /\ calls' = [ calls EXCEPT ![t].pc = "commit" ]
                /\ UNCHANGED last
           ELSE /\ calls' = [ calls EXCEPT ![t] = Idle ]
                /\ last' = returned(calls[t], r)
        /\ UNCHANGED << open, cfs >>
     \/ /\ r.tag = "Ok"
        /\ calls' = [ calls EXCEPT ![t] = Idle ]
        /\ last' = returned(calls[t], Err("UpdateNodeError"))
        /\ UNCHANGED << open, cfs, store >>

\* Line 241: txn.commit(): the buffered edge record reaches the store.  A
\* family dropped since the put makes the commit fail.
add_edge_commit(t) ==
  /\ calls[t].pc = "commit"
  /\ LET edge == calls[t].edge
         efam == family_name(edge.kind) IN
     \/ /\ efam \in cfs
        /\ store' = put_cf(store, efam, edge.id, encode_edge(edge))
        /\ calls' = [ calls EXCEPT ![t] = Idle ]
        /\ last' = returned(calls[t], Ok(Unit))
        /\ UNCHANGED << open, cfs >>
     \/ /\ calls' = [ calls EXCEPT ![t] = Idle ]
        /\ last' = returned(calls[t], Err("CreateEdgeError"))
        /\ UNCHANGED << open, cfs, store >>

\* ---------------------------------------------------------------- get_edge
get_edge_result(c, s, edge_id, kind) ==
  LET fam == family_name(edge_id.kind)
      value == get_cf(s, fam, edge_id.s)
  IN  IF fam \notin c THEN Err("EdgeFamilyError")
      ELSE IF ~value.some THEN Err("FindKeyError")
      ELSE IF ~decodes_as_edge(value.val) THEN Err("DecodeError")
      ELSE Ok(decode_edge(kind, value.val))

get_edge(edge_id, kind) ==
  /\ open
  /\ get_edge_result(cfs, store, edge_id, kind).tag \in { "Ok", "Err" }
  /\ UNCHANGED vars

\* ------------------------------------------------------------- remove_edge
\* A retracting delete: the edge id is also taken out of the ref lists of the
\* stored nodes.
remove_edge_retracting(edge_id, kind) ==
  /\ open /\ quiet
  /\ open' = FALSE
  /\ store' = [ x \in DOMAIN store \ { << family_name(edge_id.kind), edge_id.s >> } |->
                 IF decodes_as_node(store[x])
                 THEN << store[x][1],
                         SelectSeq(store[x][2], LAMBDA r : r # edge_id.s),
                         SelectSeq(store[x][3], LAMBDA r : r # edge_id.s),
                         store[x][4] >>
                 ELSE store[x] ]
  /\ last' = [ op |-> "remove_edge", arg |-> edge_id, res |-> Ok(Unit), via |-> InTransaction ]
  /\ UNCHANGED << cfs, calls >>

\* A lenient delete: a key that holds nothing is deleted with success, as
\* remove_node does.
remove_edge_lenient(edge_id, kind) ==
  /\ open /\ quiet
  /\ open' = FALSE
  /\ LET fam == family_name(edge_id.kind) IN
       /\ store' = IF fam \in cfs THEN delete_cf(store, fam, edge_id.s) ELSE store
       /\ last' = [ op |-> "remove_edge", arg |-> edge_id, via |-> InTransaction,
                    res |-> IF fam \in cfs THEN Ok(Unit) ELSE Err("EdgeFamilyError") ]
  /\ UNCHANGED << cfs, calls >>
\* Takes the Graph by value: whatever it returns, the Graph is gone afterwards
\* and the database is closed.  No other call can be running on a Graph that
\* is moved.
remove_edge(edge_id, kind) ==
  /\ open /\ quiet
  /\ open' = FALSE
  /\ LET fam == family_name(edge_id.kind)
         edge == get_edge_result(cfs, store, edge_id, kind) IN
     IF fam \notin cfs
     THEN /\ last' = [ op |-> "remove_edge", arg |-> edge_id, res |-> Err("EdgeFamilyError"), via |-> NoWrite ]
          /\ UNCHANGED << cfs, store, calls >>
     ELSE IF edge.tag = "Err"
     THEN /\ last' = [ op |-> "remove_edge", arg |-> edge_id, res |-> edge, via |-> NoWrite ]
          /\ UNCHANGED << cfs, store, calls >>
     ELSE \/ /\ store' = delete_cf(store, fam, edge.val.id)
             /\ last' = [ op |-> "remove_edge", arg |-> edge_id, res |-> Ok(Unit), via |-> InTransaction ]
             /\ UNCHANGED << cfs, calls >>
          \/ /\ last' = [ op |-> "remove_edge", arg |-> edge_id, res |-> Err("DeleteError"), via |-> InTransaction ]
             /\ UNCHANGED << cfs, store, calls >>

\* ------------------------------------------------------ destroy_everything
RECURSIVE drop_all(_, _)
drop_all(s, names) ==
  IF names = {} THEN s
  ELSE LET n == CHOOSE x \in names : TRUE IN drop_all(drop_cf(s, n), names \ { n })

\* A faulty loop: no family is dropped from the database's list.
families_kept_all(c) == c
\* The families left by the loop: if family_name != "default" { drop_cf }.
families_kept(c) == c \cap { DefaultFamily }

\* Drops every family that DB::list_cf reports, the default one excepted.
\* `had` notes whether the store held a record when the call was made.
destroy_everything ==
  /\ open
  /\ cfs' = families_kept(cfs)
  /\ store' = drop_all(store, cfs \ { DefaultFamily })
  /\ last' = [ op |-> "destroy_everything", res |-> Ok(Unit), had |-> store # << >> ]
  /\ UNCHANGED << open, calls >>

\* -------------------------------------------------------------- count_nodes
\* One per record of every family that DB::list_cf reports.
count_nodes_result(c, s) == Ok(Cardinality({ x \in DOMAIN s : x[1] \in c }))

count_nodes ==
  /\ open
  /\ count_nodes_result(cfs, store).tag = "Ok"
  /\ UNCHANGED vars

\* ---------------------------------------------------------- specifications
\* One writer at a time: a write starts only when no add_edge call is under
\* way.  Reads run at any moment, also between the steps of an add_edge call.
Next ==
  \/ Graph_new
  \/ Graph_drop
  \/ quiet /\ \E node \in CallerNodes : add_node(node)
  \/ \E kind \in NodeKinds, node_id \in IdStrings : get_node(kind, node_id)
  \/ quiet /\ \E node_id \in IdStrings : remove_node(node_id)
  \/ quiet /\ \E node \in CallerNodes : update_node(node)
  \/ quiet /\ \E edge \in EdgeObjects, from_node \in CallerNodes, to_node \in CallerNodes :
       add_edge_begin("t1", edge, from_node, to_node)
  \/ add_edge_update_from("t1")
  \/ add_edge_update_to("t1")
  \/ add_edge_commit("t1")
  \/ \E edge_id \in EdgeIds, kind \in EdgeKinds : get_edge(edge_id, kind)
  \/ \E edge_id \in EdgeIds, kind \in EdgeKinds : remove_edge(edge_id, kind)
  \/ quiet /\ destroy_everything
  \/ count_nodes

Spec == Init /\ [][Next]_vars

\* Additions only: the calls of Spec that never remove anything.
NextAdd ==
  \/ Graph_new
  \/ quiet /\ \E node \in CallerNodes : add_node(node)
  \/ \E kind \in NodeKinds, node_id \in IdStrings : get_node(kind, node_id)
  \/ quiet /\ \E node \in CallerNodes : update_node(node)
  \/ quiet /\ \E edge \in EdgeObjects, from_node \in CallerNodes, to_node \in CallerNodes :
       add_edge_begin("t1", edge, from_node, to_node)
  \/ add_edge_update_from("t1")
  \/ add_edge_update_to("t1")
  \/ add_edge_commit("t1")
  \/ \E edge_id \in EdgeIds, kind \in EdgeKinds : get_edge(edge_id, kind)

SpecAdd == Init /\ [][NextAdd]_vars

\* Two threads that call add_edge at the same time, each with node objects it
\* has just read from the store, on a graph that holds one person and one
\* company (a state Spec reaches: ConcStartReached).
InitConc ==
  /\ open = TRUE
  /\ cfs = AllFamilies
  /\ store = [ x \in { << family_name(n.kind), n.id >> : n \in FreshNodes } |->
                encode_node(CHOOSE n \in FreshNodes : n.id = x[2]) ]
  /\ calls = [ t \in Threads |-> Idle ]
  /\ last = [ op |-> "none" ]

NextConc ==
  \/ \E t \in Threads, edge \in EdgeObjects :
       \E from_node \in stored_nodes(store), to_node \in stored_nodes(store) :
         add_edge_begin(t, edge, from_node, to_node)
  \/ \E t \in Threads : add_edge_update_from(t)
  \/ \E t \in Threads : add_edge_update_to(t)
  \/ \E t \in Threads : add_edge_commit(t)
  \/ \E kind \in NodeKinds, node_id \in IdStrings : get_node(kind, node_id)
  \/ \E edge_id \in EdgeIds, kind \in EdgeKinds : get_edge(edge_id, kind)

SpecConc == InitConc /\ [][NextConc]_vars

\* The scenario add_node(p), add_node(c), add_edge(e, p, c) on a graph just
\* opened on a store with no record: p is a node that can be the source of an
\* edge, c one that can be its target, and each call is made when the one
\* before it has returned without a write error of the store.
is_source(node) == \E e \in EdgeKinds : << node.kind, e >> \in ValidOut
is_target(node) == \E e \in EdgeKinds : << node.kind, e >> \in ValidIn
store_failed(res) ==
  res \in { Err("CreateNodeError"), Err("UpdateNodeError"), Err("CreateEdgeError") }

\* The token of an identifier: what follows its kind and the separator.
token_of(id) == SubSeq(id, 3, Len(id))

\* The node objects of the scenario: of each kind, under each token and with
\* each field value; p and c are two built with the same token.
ScenarioNodes == { Node_new(k, t, i[3]) : k \in NodeKinds, t \in Tokens, i \in NodeInputs }

NextScenario ==
  \/ Graph_new
  \/ /\ last.op = "new"
     /\ \E p \in ScenarioNodes : is_source(p) /\ add_node(p)
  \/ /\ last.op = "add_node" /\ is_source(last.arg) /\ ~store_failed(last.res)
     /\ \E c \in ScenarioNodes : is_target(c) /\ token_of(c.id) = token_of(last.arg.id) /\ add_node(c)
  \/ /\ last.op = "add_node" /\ is_target(last.arg) /\ ~store_failed(last.res)
     /\ \E e \in EdgeObjects, p \in ScenarioNodes :
          /\ is_source(p) /\ token_of(p.id) = token_of(last.arg.id)
          /\ add_edge_begin("t1", e, p, last.arg)
  \/ add_edge_update_from("t1")
  \/ add_edge_update_to("t1")
  \/ add_edge_commit("t1")
  \/ \E kind \in NodeKinds, node_id \in IdStrings : get_node(kind, node_id)
  \/ count_nodes

SpecScenario == Init /\ [][NextScenario]_vars

\* Callers that also pass on what get_node::<T> handed them, for any node
\* type T and any identifier: T is the caller's choice, and the family read is
\* the one the identifier names.
fetched_nodes(c, s) ==
  { get_node_result(c, s, x[1], x[2]).val :
      x \in { y \in NodeKinds \X NodeIdStrings : get_node_result(c, s, y[1], y[2]).tag = "Ok" } }

NextFetch ==
  \/ Graph_new
  \/ Graph_drop
  \/ \E node \in FreshNodes \cup fetched_nodes(cfs, store) : add_node(node)
  \/ \E kind \in NodeKinds, node_id \in IdStrings : get_node(kind, node_id)
  \/ \E node_id \in IdStrings : remove_node(node_id)
  \/ \E node \in FreshNodes \cup fetched_nodes(cfs, store) : update_node(node)

SpecFetch == Init /\ [][NextFetch]_vars

\* Identifier construction on its own: <N>Id::new(Some(token)), <N>::new_id(token)
\* and <E>::new(Some(token), ..) for every kind and every token of up to
\* MaxTokenLen symbols, the separator among them.
Symbols == { "1", "2", Colon }
TokenStrings == UNION { [ 1..n -> Symbols ] : n \in 0..MaxTokenLen }

new_id(kind, token) ==
  /\ last' = [ op |-> "new_id", kind |-> kind, token |-> token, res |-> format_id(kind, token) ]
  /\ UNCHANGED << open, cfs, store, calls >>

NextId == \E kind \in NodeKinds \cup EdgeKinds, token \in TokenStrings : new_id(kind, token)

SpecId == Init /\ [][NextId]_vars

\* The build of the crate on its own: build.rs run on a schema, then rustc on
\* the generated.rs it wrote.  The schemas: Person alone or Person and
\* Company as node kinds, up to MaxEdgeKinds edge kinds of up to MaxRules
\* rules each, every rule naming as `from` and `to` one of RuleEnds (Company
\* is not a declared node kind when Person stands alone; EmploysAt never is).
MaxRules == 2
MaxEdgeKinds == 2

RuleEnds   == { "Person", "Company", "EmploysAt" }
RuleNameAt == << "Employment", "Contract", "Internship" >>
EdgeNameAt == << "EmploysAt", "Owns", "Funds" >>
NodeLists  == { << [name |-> "Person"] >>, << [name |-> "Person"], [name |-> "Company"] >> }

RuleSeqs == UNION { [ 1..n -> RuleEnds \X RuleEnds ] : n \in 0..MaxRules }
EdgeSeqs == UNION { [ 1..n -> RuleSeqs ] : n \in 0..MaxEdgeKinds }

mk_rules(rs) ==
  [ i \in DOMAIN rs |-> [ from |-> rs[i][1], to |-> rs[i][2], name |-> RuleNameAt[i] ] ]
mk_edges(es) ==
  [ i \in DOMAIN es |-> [ name |-> EdgeNameAt[i], connections |-> mk_rules(es[i]) ] ]

Schemas == { [ nodes |-> ns, edges |-> mk_edges(es) ] : ns \in NodeLists, es \in EdgeSeqs }

\* The name of a generated type: the kind name and a suffix.
type_name(kind, suffix) == << kind, suffix >>

\* The types generated.rs defines, one entry per definition: <E>Id,
\* <E>Connection and <E> in the edge loop, <N>Id, <N>InEdge, <N>OutEdge and
\* <N> in the node loop.
RECURSIVE edge_types(_)
edge_types(es) ==
  IF es = << >> THEN << >>
  ELSE << type_name(Head(es).name, "Id"), type_name(Head(es).name, "Connection"),
          type_name(Head(es).name, "") >> \o edge_types(Tail(es))

RECURSIVE node_types(_)
node_types(ns) ==
  IF ns = << >> THEN << >>
  ELSE << type_name(Head(ns).name, "Id"), type_name(Head(ns).name, "InEdge"),
          type_name(Head(ns).name, "OutEdge"), type_name(Head(ns).name, "") >>
       \o node_types(Tail(ns))

defined_types(sch) == edge_types(sch.edges) \o node_types(sch.nodes)

\* The types the variants of the generated enums name: #from and #to of every
\* connection variant, and the edge id behind every in/out variant.
referenced_types(sch) ==
  UNION { { type_name(c.from, "Id"), type_name(c.to, "Id") } :
            c \in UNION { Range(e.connections) : e \in Range(sch.edges) } }
  \cup { type_name(e, "Id") :
           e \in UNION { Range(node_edge_types(sch)[n.name][1]) \cup Range(node_edge_types(sch)[n.name][2]) :
                           n \in Range(sch.nodes) } }

\* No element of the list appears twice.
distinct(v) == Cardinality(Range(v)) = Len(v)

\* rustc on generated.rs: every type named is defined, no type is defined
\* twice, and no enum has two variants of one name.
type_checks(sch) ==
  /\ referenced_types(sch) \subseteq Range(defined_types(sch))
  /\ distinct(defined_types(sch))
  /\ \A e \in Range(sch.edges) :
       Cardinality({ c.name : c \in Range(e.connections) }) = Len(e.connections)
  /\ \A n \in Range(sch.nodes) :
       distinct(in_edge_types(sch, n.name)) /\ distinct(out_edge_types(sch, n.name))

\* The vocabulary a build that succeeds hands to the engine.
vocabulary(sch) ==
  [ nodes      |-> { n.name : n \in Range(sch.nodes) },
    connection |-> [ e \in { d.name : d \in Range(sch.edges) } |-> connection_variants(sch, e) ],
    in_edge    |-> [ n \in { d.name : d \in Range(sch.nodes) } |-> in_edge_types(sch, n) ],
    out_edge   |-> [ n \in { d.name : d \in Range(sch.nodes) } |-> out_edge_types(sch, n) ],
    families   |-> families(sch) ]

\* node_edge_types.get(&node.name): Some when an edge rule named the kind.
node_edge_types_get(sch, n) == n \in DOMAIN node_edge_types(sch)

\* build.rs panics in the node loop on the unwrap of a None; otherwise it
\* writes generated.rs, which rustc accepts or not.
compile_result(sch) ==
  IF \E n \in Range(sch.nodes) : ~node_edge_types_get(sch, n.name) THEN Err("UnwrapNonePanic")
  ELSE IF ~type_checks(sch) THEN Err("RustcError")
  ELSE Ok(vocabulary(sch))

InitBuild ==
  /\ open = FALSE
  /\ cfs = {}
  /\ store = << >>
  /\ calls = [ t \in Threads |-> Idle ]
  /\ last = [ op |-> "none" ]

compile(sch) ==
  /\ last.op = "none"
  /\ last' = [ op |-> "compile", schema |-> sch, res |-> compile_result(sch) ]
  /\ UNCHANGED << open, cfs, store, calls >>

\* A caller of the generated vocabulary builds an edge object: a variant of
\* <E>Connection over ids made by the id constructors of its two types.
construct_edge(e, v, tf, tt) ==
  /\ last.op = "compile" /\ last.res.tag = "Ok"
  /\ e \in DOMAIN last.res.val.connection
  /\ v \in last.res.val.connection[e]
  /\ last' = [ op |-> "Edge_new", schema |-> last.schema,
               res |-> Edge_new(e, << "1" >>,
                                [ name |-> v[1], from |-> format_id(v[2], tf), to |-> format_id(v[3], tt) ],
                                "1843") ]
  /\ UNCHANGED << open, cfs, store, calls >>

NextBuild ==
  \/ last.op = "none" /\ \E sch \in Schemas : compile(sch)
  \/ /\ last.op = "compile"
     /\ \E e \in Range(EdgeNameAt), v \in Range(RuleNameAt) \X RuleEnds \X RuleEnds, t \in Tokens :
          construct_edge(e, v, t, << "1" >>)

SpecBuild == InitBuild /\ [][NextBuild]_vars
\* The ref-list methods of a node object on their own: a caller holds a node
\* object whose two lists are any lists of up to MaxRefList edge ids (the
\* lists of create_node_struct! are Vec<String>) and calls remove_in_edge_id
\* or remove_out_edge_id on it, again and again.
MaxRefList == 3

RefLists == UNION { [ 1..n -> EdgeIdStrings ] : n \in 0..MaxRefList }

RefNodes ==
  { [ kind |-> i[1], id |-> format_id(i[1], i[2]),
      in_edge_ids |-> a, out_edge_ids |-> b, fields |-> i[3] ] :
      i \in NodeInputs, a \in RefLists, b \in RefLists }

InitRefs ==
  /\ open = FALSE
  /\ cfs = {}
  /\ store = << >>
  /\ calls = [ t \in Threads |-> Idle ]
  /\ last \in { [ op |-> "object", res |-> n ] : n \in RefNodes }

Node_remove_in_edge_id(edge_id) ==
  /\ last' = [ op |-> "remove_in_edge_id", arg |-> last.res, edge_id |-> edge_id,
               res |-> remove_in_edge_id(last.res, edge_id) ]
  /\ UNCHANGED << open, cfs, store, calls >>

Node_remove_out_edge_id(edge_id) ==
  /\ last' = [ op |-> "remove_out_edge_id", arg |-> last.res, edge_id |-> edge_id,
               res |-> remove_out_edge_id(last.res, edge_id) ]
  /\ UNCHANGED << open, cfs, store, calls >>

NextRefs ==
  \/ \E edge_id \in EdgeIdStrings : Node_remove_in_edge_id(edge_id)
  \/ \E edge_id \in EdgeIdStrings : Node_remove_out_edge_id(edge_id)

SpecRefs == InitRefs /\ [][NextRefs]_vars
\* ------------------------------------------------- the icy engine (icy/src/lib.rs)
\* The earlier engine keeps no edge records: a node carries the ids of its
\* neighbours in nbs, and an edge is an entry of the source node's list.

\* create_node_struct!: <Kind>::new(Some(token), field): the id is
\* "<Kind>:<token>", the neighbour list is empty.
IceNode_new(kind, token, field) ==
  [ kind |-> kind, id |-> format_id(kind, token), nbs |-> << >>, fields |-> << field >> ]

\* serde_json::to_vec / to_string of a node: its id, its list, its fields.
icy_to_vec(node) == << node.id, node.nbs, node.fields >>

\* serde_json::from_slice::<T>: the kind of the result is the caller's T, here
\* the kind the record was written with (the family it is read from).
icy_from_slice(kind, bytes) ==
  [ kind |-> kind, id |-> bytes[1], nbs |-> bytes[2], fields |-> bytes[3] ]

\* The longest neighbour list a modelled call builds.
MaxNbs == 3

\* The node objects, source ids and target ids the callers of the icy engine use.
IceNodes     == { IceNode_new(i[1], i[2], i[3]) : i \in NodeInputs }
IceSourceIds == { format_id("Person", t) : t \in Tokens } \cup { format_id("Company", << "1" >>) }
IceTargetIds == { format_id("Company", t) : t \in Tokens }

\* A thread that is in no call, with the result of the add_edge call it
\* returned from last (none yet).
IcyIdle == [ pc |-> "idle", from_id |-> << >>, to_id |-> << >>, res |-> Err("NoCall") ]

\* The result of a returned add_edge call, kept with its thread.
icy_returned(from_node_id, to_node_id, result) ==
  [ pc |-> "idle", from_id |-> from_node_id, to_id |-> to_node_id, res |-> result ]

\* The node stored under an id, as get_node reads it.
icy_read_node(s, c, node_id) ==
  LET fam == split_next(node_id) IN
  IF fam \notin c THEN Err("NodeFamilyError")
  ELSE LET value == get_cf(s, fam, node_id) IN
       IF value.some THEN Ok(icy_from_slice(fam[1], value.val)) ELSE Err("FindKeyError")

\* Graph::new: opens the database with the families it finds; creates none
\* but the default family of a new database.
icy_new ==
  /\ ~open
  /\ open' = TRUE
  /\ cfs' = cfs \cup { DefaultFamily }
  /\ last' = [ op |-> "new", res |-> Ok(<< >>) ]
  /\ UNCHANGED << store, calls >>

\* add_node: creates the family of the node's kind when it has none, then
\* txn.put_cf of the whole record and commit.
icy_add_node(node) ==
  /\ open
  /\ cfs' = cfs \cup { family_name(node.kind) }
  /\ store' = put_cf(store, family_name(node.kind), node.id, icy_to_vec(node))
  /\ last' = [ op |-> "add_node", from_id |-> node.id, to_id |-> << >>, res |-> Ok(node) ]
  /\ UNCHANGED << open, calls >>

\* get_node
icy_get_node(node_id) ==
  /\ open
  /\ last' = [ op |-> "get_node", from_id |-> node_id, to_id |-> << >>,
               res |-> icy_read_node(store, cfs, node_id) ]
  /\ UNCHANGED << open, cfs, store, calls >>

\* add_edge, first half: the family handle, self.db.get_cf on the database
\* (outside any transaction), from_slice, nbs_mut().push(to_node_id).  A
\* missing family returns at once; a missing key is returned at node_payload?
\* before the put, with nothing written.
icy_add_edge_read(t, from_node_id, to_node_id) ==
  /\ open /\ calls[t].pc = "idle"
  /\ LET r == icy_read_node(store, cfs, from_node_id) IN
     IF r.tag = "Err"
     THEN /\ calls' = [ calls EXCEPT ![t] = icy_returned(from_node_id, to_node_id, r) ]
          /\ last' = [ op |-> "add_edge", from_id |-> from_node_id, to_id |-> to_node_id, res |-> r ]
     ELSE /\ Len(r.val.nbs) < MaxNbs
          /\ calls' = [ calls EXCEPT ![t] =
                          [ pc |-> "put", from_id |-> from_node_id, to_id |-> to_node_id,
                            res |-> Err("NoCall"),
                            node_payload |-> [ r.val EXCEPT !.nbs = Append(@, to_node_id) ] ] ]
          /\ last' = [ op |-> "add_edge_read", from_id |-> from_node_id, to_id |-> to_node_id,
                       res |-> Ok(<< >>) ]
  /\ UNCHANGED << open, cfs, store >>

\* add_edge, second half: db.transaction(), txn.put_cf of the whole record
\* that was read and pushed onto, txn.commit(), Ok(()).  The transaction holds
\* the key from its put to its commit; it read nothing, so the commit checks
\* nothing.
icy_add_edge_commit(t) ==
  /\ open /\ calls[t].pc = "put"
  /\ store' = put_cf(store, split_next(calls[t].from_id), calls[t].from_id,
                     icy_to_vec(calls[t].node_payload))
  /\ calls' = [ calls EXCEPT ![t] = icy_returned(calls[t].from_id, calls[t].to_id, Ok(<< >>)) ]
  /\ last' = [ op |-> "add_edge", from_id |-> calls[t].from_id, to_id |-> calls[t].to_id,
               res |-> Ok(<< >>) ]
  /\ UNCHANGED << open, cfs >>

\* nbs().iter().position(|x| *x == to_node_id): the index of the first entry
\* equal to x, 0 when there is none.
position(v, x) ==
  IF \E i \in DOMAIN v : v[i] = x
  THEN CHOOSE i \in DOMAIN v : v[i] = x /\ \A j \in DOMAIN v : v[j] = x => i <= j
  ELSE 0

\* Vec::remove(index): the entries after it move up by one.
vec_remove(v, index) == SubSeq(v, 1, index - 1) \o SubSeq(v, index + 1, Len(v))

\* A faulty removal: every entry equal to x goes.
remove_each(v, x) == retain_ne(v, x)
\* position(..).ok_or(NeighbourIndexError)?; nbs_mut().remove(index)
remove_first(v, x) == vec_remove(v, position(v, x))

\* remove_edge: the result of the call and the store after it.
icy_remove_edge_result(s, c, from_node_id, to_node_id) ==
  LET fam == split_next(from_node_id) IN
  IF fam \notin c THEN [ res |-> Err("NodeFamilyError"), store |-> s ]
  ELSE LET value == get_cf(s, fam, from_node_id) IN
       IF ~value.some THEN [ res |-> Err("FindKeyError"), store |-> s ]
       ELSE LET node_payload == icy_from_slice(fam[1], value.val) IN
            IF position(node_payload.nbs, to_node_id) = 0
            THEN [ res |-> Err("NeighbourIndexError"), store |-> s ]
            ELSE [ res   |-> Ok(<< >>),
                   store |-> put_cf(s, fam, from_node_id,
                               icy_to_vec([ node_payload EXCEPT
                                              !.nbs = remove_first(@, to_node_id) ])) ]

icy_remove_edge(from_node_id, to_node_id) ==
  /\ open
  /\ LET r == icy_remove_edge_result(store, cfs, from_node_id, to_node_id) IN
     /\ store' = r.store
     /\ last' = [ op |-> "remove_edge", from_id |-> from_node_id, to_id |-> to_node_id,
                  res |-> r.res ]
  /\ UNCHANGED << open, cfs, calls >>

\* The database at the path before the first Graph::new of the icy engine:
\* none at all, or one in which an earlier run added nodes of both kinds.
InitIcy ==
  /\ open = FALSE
  /\ cfs \in { {}, { DefaultFamily } \cup { family_name(k) : k \in NodeKinds } }
  /\ store = << >>
  /\ calls = [ t \in Threads |-> IcyIdle ]
  /\ last = [ op |-> "none" ]

\* One caller: every call returns before the next begins.
NextIcy ==
  \/ icy_new
  \/ quiet /\ \E node \in IceNodes : icy_add_node(node)
  \/ quiet /\ \E node_id \in IceSourceIds : icy_get_node(node_id)
  \/ \E from_node_id \in IceSourceIds, to_node_id \in IceTargetIds :
       icy_add_edge_read("t1", from_node_id, to_node_id)
  \/ icy_add_edge_commit("t1")
  \/ quiet /\ \E from_node_id \in IceSourceIds, to_node_id \in IceTargetIds :
       icy_remove_edge(from_node_id, to_node_id)

SpecIcy == InitIcy /\ [][NextIcy]_vars

\* Two threads share the graph (Arc<TransactionDB<MultiThreaded>>) and call
\* add_edge, on a database that holds the nodes with empty lists.
InitIcyConc ==
  /\ open = TRUE
  /\ cfs = { DefaultFamily } \cup { family_name(n.kind) : n \in IceNodes }
  /\ store = [ k \in { << family_name(n.kind), n.id >> : n \in IceNodes } |->
                 icy_to_vec(CHOOSE n \in IceNodes : n.id = k[2]) ]
  /\ calls = [ t \in Threads |-> IcyIdle ]
  /\ last = [ op |-> "none" ]

NextIcyConc ==
  \/ \E t \in Threads, from_node_id \in IceSourceIds, to_node_id \in IceTargetIds :
       icy_add_edge_read(t, from_node_id, to_node_id)
  \/ \E t \in Threads : icy_add_edge_commit(t)
  \/ \E node_id \in IceSourceIds : icy_get_node(node_id)

SpecIcyConc == InitIcyConc /\ [][NextIcyConc]_vars
\* -------------------------------------------------------------- properties
\* The kind named by a well-formed identifier.
kind_of(id) == split_next(id)[1]

\* The record stored under a node identifier, as get_node::<its kind> returns it.
read_node(id) == get_node_result(cfs, store, kind_of(id), id)
read_edge(e)  == get_edge_result(cfs, store, [ kind |-> e.kind, s |-> e.id ], e.kind)

\* C1: add_edge is all-or-nothing: when it returns an error, the values under
\* its three keys (the edge's, the source node's, the target node's) are what
\* they were before the call.
C1_AddEdgeAllOrNothing ==
  (last.op = "add_edge" /\ last.res.tag = "Err") =>
     \A k \in DOMAIN last.pre : get_cf(store, k[1], k[2]) = last.pre[k]

\* C2: after add_edge(e, a, b) returns success, a's stored record lists e.id
\* as outbound, b's lists it as inbound, and get_edge(e.id) returns a record
\* whose Connection source is a.id and whose target is b.id.
C2_AddEdgeVisible ==
  (last.op = "add_edge" /\ last.res.tag = "Ok") =>
     /\ read_node(last.from_id).tag = "Ok"
     /\ last.edge.id \in Range(read_node(last.from_id).val.out_edge_ids)
     /\ read_node(last.to_id).tag = "Ok"
     /\ last.edge.id \in Range(read_node(last.to_id).val.in_edge_ids)
     /\ read_edge(last.edge).tag = "Ok"
     /\ read_edge(last.edge).val.connection.from = last.from_id
     /\ read_edge(last.edge).val.connection.to = last.to_id

\* C3: after a successful Graph::new, a family exists for every kind the
\* schema declares, node kinds as well as edge kinds.
C3_NewCreatesEveryFamily ==
  (last.op = "new" /\ last.res.tag = "Ok") =>
     \A k \in NodeKinds \cup EdgeKinds : family_name(k) \in cfs

\* C4: after add_node(r) succeeds, and until the next write, get_node(r.id)
\* returns a record equal to r, fields and both ref lists included.
C4_AddThenGet ==
  (last.op = "add_node" /\ last.res.tag = "Ok") =>
     get_node_result(cfs, store, last.arg.kind, last.arg.id) = Ok(last.arg)

C4_Witness ==
  /\ last.op = "add_node" /\ last.res.tag = "Ok"
  /\ last.arg.out_edge_ids # << >>

\* C5: after remove_node(id) succeeds, and until the next write, get_node(id)
\* fails with FindKeyError.
C5_RemoveThenGet ==
  (last.op = "remove_node" /\ last.res.tag = "Ok") =>
     \A kind \in NodeKinds : get_node_result(cfs, store, kind, last.arg) = Err("FindKeyError")

C5_Witness == last.op = "remove_node" /\ last.res.tag = "Ok" /\ last.had

\* C6: get_node and remove_node, given an identifier with no ':' in it, fail
\* with ParseNodeIdError.
C6_MalformedIdRejected ==
  /\ open => \A id \in Malformed, kind \in NodeKinds :
               get_node_result(cfs, store, kind, id) = Err("ParseNodeIdError")
  /\ (last.op = "remove_node" /\ last.arg \in Malformed) => last.res = Err("ParseNodeIdError")

\* C7: referential integrity between calls: every edge id in a stored node's
\* outbound list names a stored edge whose Connection source is that node, and
\* every edge id in its inbound list one whose Connection target is that node.
stored_edge(id) == get_cf(store, family_name(kind_of(id)), id)

C7_ReferentialIntegrity ==
  quiet =>
    \A n \in stored_nodes(store) :
      /\ \A id \in Range(n.out_edge_ids) :
           /\ stored_edge(id).some
           /\ decode_edge(kind_of(id), stored_edge(id).val).connection.from = n.id
      /\ \A id \in Range(n.in_edge_ids) :
           /\ stored_edge(id).some
           /\ decode_edge(kind_of(id), stored_edge(id).val).connection.to = n.id

\* The edge records in the store.
stored_edges(s) ==
  { decode_edge(x[1][1], s[x]) :
      x \in { y \in DOMAIN s : y[1] \in { family_name(k) : k \in EdgeKinds } /\ decodes_as_edge(s[y]) } }

\* C8: with no removal, between calls, every stored edge record is listed as
\* outbound by the stored node its Connection names as source and as inbound
\* by the stored node it names as target.
C8_EdgesListedByEndpoints ==
  quiet =>
    \A e \in stored_edges(store), n \in stored_nodes(store) :
      /\ n.id = e.connection.from => e.id \in Range(n.out_edge_ids)
      /\ n.id = e.connection.to => e.id \in Range(n.in_edge_ids)

\* C9: no reader sees part of an add_edge call: while the call runs, whenever
\* the stored source node lists the edge id (and did not before the call),
\* get_edge of that id finds the edge record.
C9_AddEdgeIsolated ==
  \A t \in Threads :
    calls[t].pc # "idle" =>
      LET e == calls[t].edge
          a == calls[t].from_node
          before == calls[t].pre[<< family_name(a.kind), a.id >>]
          now == read_node(a.id)
      IN  ( /\ now.tag = "Ok"
            /\ e.id \in Range(now.val.out_edge_ids)
            /\ ~(before.some /\ e.id \in Range(decode_node(a.kind, before.val).out_edge_ids)) )
          => read_edge(e).tag = "Ok"


\* C10: no lost ref-set update: once two add_edge calls that share their
\* endpoint nodes have both returned success (both edge records are stored,
\* under different ids),
\* the stored source node lists both edge ids as outbound and the stored
\* target node lists both as inbound.
C10_NoLostRefUpdate ==
  quiet =>
    \A e1 \in stored_edges(store), e2 \in stored_edges(store) :
      e1.id # e2.id =>
        \A n \in stored_nodes(store) :
          /\ n.kind = "Person" => { e1.id, e2.id } \subseteq Range(n.out_edge_ids)
          /\ n.kind = "Company" => { e1.id, e2.id } \subseteq Range(n.in_edge_ids)

\* The start of SpecConc is a state of Spec.
ConcStartReached ==
  ~ ( /\ open /\ quiet /\ cfs = AllFamilies
      /\ store = [ x \in { << family_name(n.kind), n.id >> : n \in FreshNodes } |->
                     encode_node(CHOOSE n \in FreshNodes : n.id = x[2]) ] )

C12_CountIsKeyCount ==
  /\ count_nodes_result(cfs, store) = Ok(Cardinality(DOMAIN store))
  /\ (last.op = "add_edge" /\ last.res.tag # "Pending" /\ ~store_failed(last.res)) =>
        count_nodes_result(cfs, store) = Ok(3)

\* C13: remove_node(id) changes only the key id: every other key of the
\* store, the edges whose Connection names id included, holds after the call
\* what it held before, and no family is created or dropped.
C13_RemoveNodeFrame ==
  [][ last'.op = "remove_node" =>
        /\ cfs' = cfs
        /\ \A k \in DOMAIN store \cup DOMAIN store' :
             k[2] # last'.arg =>
               k \in DOMAIN store /\ k \in DOMAIN store' /\ store'[k] = store[k] ]_vars

C13_Witness ==
  /\ last.op = "remove_node" /\ last.res.tag = "Ok" /\ last.had
  /\ \E e \in stored_edges(store) : last.arg \in { e.connection.from, e.connection.to }

\* C14: remove_edge(id) deletes only the edge record: every other key of the
\* store holds after the call what it held before, so the stored endpoint
\* nodes still list the removed edge's id; after a successful call the edge
\* key holds nothing.
C14_RemoveEdgeFrame ==
  [][ last'.op = "remove_edge" =>
        /\ cfs' = cfs
        /\ \A k \in DOMAIN store \cup DOMAIN store' :
             k # << family_name(last'.arg.kind), last'.arg.s >> =>
               k \in DOMAIN store /\ k \in DOMAIN store' /\ store'[k] = store[k]
        /\ last'.res.tag = "Ok" =>
             << family_name(last'.arg.kind), last'.arg.s >> \notin DOMAIN store' ]_vars

C14_Witness ==
  /\ last.op = "remove_edge" /\ last.res.tag = "Ok"
  /\ \E n \in stored_nodes(store) :
       last.arg.s \in Range(n.out_edge_ids) \cup Range(n.in_edge_ids)

\* C15: add_node(r) and update_node(r), when the family of r's kind does not
\* exist, fail with FindFamilyError, create no family and change no key.
C15_MissingNodeFamily ==
  [][ ( /\ last'.op \in { "add_node", "update_node" }
        /\ family_name(last'.arg.kind) \notin cfs ) =>
        /\ last'.res = Err("FindFamilyError")
        /\ cfs' = cfs
        /\ store' = store ]_vars

C15_Witness ==
  /\ last.op = "update_node" /\ last.res = Err("FindFamilyError")
  /\ family_name(last.arg.kind) \notin cfs

\* C16: add_edge(e, a, b), when the family of e's kind does not exist, fails
\* with EdgeFamilyError before any write: no key and no family changes.
C16_MissingEdgeFamily ==
  [][ ( /\ last'.op = "add_edge"
        /\ family_name(last'.edge.kind) \notin cfs ) =>
        /\ last'.res = Err("EdgeFamilyError")
        /\ cfs' = cfs
        /\ store' = store ]_vars

C16_Witness ==
  /\ last.op = "add_edge" /\ last.res = Err("EdgeFamilyError")
  /\ family_name(last.edge.kind) \notin cfs

\* C17: update_node(r) overwrites in place: after it succeeds get_node(r.id)
\* returns a record equal to r, and every key other than r's holds what it
\* held before.
C17_UpdateOverwrites ==
  [][ (last'.op = "update_node" /\ last'.res.tag = "Ok") =>
        /\ get_node_result(cfs', store', last'.arg.kind, last'.arg.id) = Ok(last'.arg)
        /\ cfs' = cfs
        /\ \A k \in DOMAIN store \cup DOMAIN store' :
             k # << family_name(last'.arg.kind), last'.arg.id >> =>
               k \in DOMAIN store /\ k \in DOMAIN store' /\ store'[k] = store[k] ]_vars

\* An update_node has stored a record with no outbound ref for a node that a
\* stored edge names as its source.
C17_Witness ==
  /\ last.op = "update_node" /\ last.res.tag = "Ok"
  /\ last.arg.out_edge_ids = << >>
  /\ \E e \in stored_edges(store) : e.connection.from = last.arg.id

\* C18: every key stored in a family is an identifier whose kind prefix (the
\* text before its first ':') is the name of that family.
C18_KeyNamesItsFamily ==
  \A x \in DOMAIN store : split_next(x[2]) = x[1]

\* C19: for every kind N and token t, tokens that contain ':' included, the
\* identifier constructed is exactly "N:t", and the text before its first ':'
\* (the family the engine looks up) is N.
C19_IdentifierFormat ==
  last.op = "new_id" =>
    /\ last.res = << last.kind >> \o << ":" >> \o last.token
    /\ split_next(last.res) = family_name(last.kind)

C19_Witness ==
  last.op = "new_id" /\ Len(last.token) = MaxTokenLen /\ last.token[2] = ":"

\* C20: create_family_if_not_exists is idempotent: for a name that already
\* has a family it succeeds and creates nothing, a second call after a first
\* gives what the first gave, and a Graph::new that finds every family of
\* families() in place leaves the families and every record as they were.
C20_EnsureFamilyIdempotent ==
  /\ [] ( \A name \in AllFamilies :
            LET once == create_family_if_not_exists(cfs, name) IN
              /\ once.tag = "Ok"
              /\ create_family_if_not_exists(once.val, name) = once
              /\ name \in cfs => once.val = cfs )
  /\ [][ ( /\ last'.op = "new"
           /\ \A n \in Range(Families) : family_name(n) \in cfs ) =>
           /\ last'.res = Ok(Unit)
           /\ cfs' = cfs
           /\ store' = store ]_vars

\* A Graph::new on a database that holds records.
C20_Witness ==
  last.op = "new" /\ last.res.tag = "Ok" /\ store # << >>

\* C21: a family, once it exists, keeps existing under its name until a
\* destroy_everything call: no other step (Graph::new, add, get, update,
\* remove, count, closing the database) takes a family away.
C21_FamilyLifecycle ==
  [][ cfs \subseteq cfs' \/ last'.op = "destroy_everything" ]_vars

\* The last record of the store has been removed and every family is still
\* there.
C21_Witness ==
  /\ last.op = "remove_node" /\ last.res.tag = "Ok" /\ last.had
  /\ store = << >>
  /\ cfs = AllFamilies

\* The (from, to) pairs of the connection rules the schema declares for an
\* edge kind.
declared_pairs(sch, e) ==
  { << c.from, c.to >> :
      c \in UNION { Range(d.connections) : d \in { x \in Range(sch.edges) : x.name = e } } }

edges_into(sch, n)   == { e.name : e \in { d \in Range(sch.edges) : \E c \in Range(d.connections) : c.to = n } }
edges_out_of(sch, n) == { e.name : e \in { d \in Range(sch.edges) : \E c \in Range(d.connections) : c.from = n } }

\* C23: in the vocabulary of a schema that builds, the inbound-ref type of
\* every node kind N has one variant for exactly each edge kind with a rule
\* whose `to` is N, the outbound-ref type one for exactly each edge kind with
\* a rule whose `from` is N, and no variant appears twice.
C23_RefVariants ==
  (last.op = "compile" /\ last.res.tag = "Ok") =>
    \A n \in last.res.val.nodes :
      /\ Range(last.res.val.in_edge[n]) = edges_into(last.schema, n)
      /\ Range(last.res.val.out_edge[n]) = edges_out_of(last.schema, n)
      /\ distinct(last.res.val.in_edge[n])
      /\ distinct(last.res.val.out_edge[n])

\* A schema has built in which two edge kinds have Company as target, the
\* first of them by two rules.
C23_Witness ==
  /\ last.op = "compile" /\ last.res.tag = "Ok"
  /\ "Company" \in last.res.val.nodes
  /\ Len(last.res.val.in_edge["Company"]) = 2
  /\ Len(last.schema.edges[1].connections) = 2
  /\ \A c \in Range(last.schema.edges[1].connections) : c.to = "Company"

\* A schema with unique kind names whose rules name declared node kinds only.
well_formed(sch) ==
  /\ distinct([ i \in 1..(Len(sch.nodes) + Len(sch.edges)) |->
                 IF i <= Len(sch.nodes) THEN sch.nodes[i].name ELSE sch.edges[i - Len(sch.nodes)].name ])
  /\ \A e \in Range(sch.edges) : \A c \in Range(e.connections) :
       { c.from, c.to } \subseteq { n.name : n \in Range(sch.nodes) }

\* C24: on every schema with unique kind names whose rules name declared node
\* kinds only, the build completes and the vocabulary has the types of every
\* declared node kind; a node kind that no rule names has inbound and
\* outbound ref types with no variant.
C24_EveryNodeKindCompiled ==
  (last.op = "compile" /\ well_formed(last.schema)) =>
    /\ last.res.tag = "Ok"
    /\ last.res.val.nodes = { n.name : n \in Range(last.schema.nodes) }
    /\ \A n \in last.res.val.nodes :
         n \notin DOMAIN node_edge_types(last.schema) =>
           last.res.val.in_edge[n] = << >> /\ last.res.val.out_edge[n] = << >>

\* The rules of a schema that name, as `from` or `to`, a kind that is not
\* declared under nodes.
dangling_rules(sch) ==
  { c \in UNION { Range(e.connections) : e \in Range(sch.edges) } :
      ~({ c.from, c.to } \subseteq { n.name : n \in Range(sch.nodes) }) }

\* C25: a schema in which some connection rule names a node kind that is not
\* declared under nodes does not build: the build fails and hands no
\* vocabulary to the engine.
C25_UndeclaredKindRejected ==
  (last.op = "compile" /\ dangling_rules(last.schema) # {}) => last.res.tag = "Err"

\* C26: remove_in_edge_id(x) leaves in the inbound list exactly the elements
\* that differ from x, in their original order, and changes neither the
\* outbound list nor the id nor the fields; remove_out_edge_id(x) does the
\* same with the two lists exchanged.
C26_RemoveRefId ==
  /\ last.op = "remove_in_edge_id" =>
       /\ last.res.in_edge_ids = SelectSeq(last.arg.in_edge_ids, LAMBDA r : r # last.edge_id)
       /\ last.res.out_edge_ids = last.arg.out_edge_ids
       /\ last.res.id = last.arg.id /\ last.res.fields = last.arg.fields
  /\ last.op = "remove_out_edge_id" =>
       /\ last.res.out_edge_ids = SelectSeq(last.arg.out_edge_ids, LAMBDA r : r # last.edge_id)
       /\ last.res.in_edge_ids = last.arg.in_edge_ids
       /\ last.res.id = last.arg.id /\ last.res.fields = last.arg.fields

\* x has been removed from an inbound list that held it twice with another
\* id between, on an object that lists x as outbound too.
C26_Witness ==
  /\ last.op = "remove_in_edge_id"
  /\ Len(last.arg.in_edge_ids) = 3
  /\ last.arg.in_edge_ids[1] = last.edge_id /\ last.arg.in_edge_ids[3] = last.edge_id
  /\ last.arg.in_edge_ids[2] # last.edge_id
  /\ last.edge_id \in Range(last.arg.out_edge_ids)

\* C27: every store write of add_node, update_node, remove_node and
\* remove_edge goes through a transaction that the call itself begins and
\* commits; none of them writes on the database handle directly.
C27_WritesInTransaction ==
  last.op \in { "add_node", "update_node", "remove_node", "remove_edge" } =>
    last.via \in { InTransaction, NoWrite }

\* C28: a Graph on which destroy_everything has run (it is open and only the
\* default family is left) never gets a family back: no step creates one
\* while the Graph lives, and every add_node, update_node and add_edge on it
\* fails with FindFamilyError or EdgeFamilyError and stores nothing.
C28_NoFamilyAfterDestroy ==
  [][ /\ (open /\ open') => cfs' \subseteq cfs
      /\ ( /\ open /\ cfs \subseteq { DefaultFamily }
           /\ last'.op \in { "add_node", "update_node", "add_edge" } ) =>
           /\ last'.res = IF last'.op = "add_edge" THEN Err("EdgeFamilyError") ELSE Err("FindFamilyError")
           /\ store' = store
           /\ cfs' = cfs ]_vars

\* add_node has failed on a Graph left with the default family alone.
C28_Witness ==
  /\ open /\ cfs = { DefaultFamily }
  /\ last.op = "add_node" /\ last.res = Err("FindFamilyError")

\* C29: add_node(r) on a key that holds a record succeeds unless the store
\* refuses the write: it never fails because the key exists.  The record
\* stored under r.id is then r, ref lists included, and the number of records
\* is what it was.
C29_AddNodeReplaces ==
  [][ ( /\ last'.op = "add_node" /\ last'.had
        /\ ~store_failed(last'.res) ) =>
        /\ last'.res = Ok(last'.arg)
        /\ get_cf(store', family_name(last'.arg.kind), last'.arg.id) = Some(encode_node(last'.arg))
        /\ get_node_result(cfs', store', last'.arg.kind, last'.arg.id) = Ok(last'.arg)
        /\ count_nodes_result(cfs', store') = count_nodes_result(cfs, store) ]_vars

\* add_node has put a record with no ref in the place of one that listed an
\* edge: the stored edge still names the node and the node no longer lists it.
C29_Witness ==
  /\ last.op = "add_node" /\ last.res.tag = "Ok" /\ last.had
  /\ last.arg.out_edge_ids = << >> /\ last.arg.in_edge_ids = << >>
  /\ \E e \in stored_edges(store) : last.arg.id \in { e.connection.from, e.connection.to }
  /\ count_nodes_result(cfs, store) = Ok(3)

\* C30: remove_edge(id), when no edge record is stored under id, fails with
\* FindKeyError and leaves the store as it was, whereas remove_node(id), when
\* no record is stored under id and the family that id names exists, returns
\* success (the store refusing no write) and leaves the store as it was.
C30_RemoveAbsent ==
  [][ /\ ( /\ last'.op = "remove_edge"
           /\ << family_name(last'.arg.kind), last'.arg.s >> \notin DOMAIN store ) =>
           /\ last'.res = Err("FindKeyError")
           /\ store' = store
      /\ ( /\ last'.op = "remove_node"
           /\ split_next(last'.arg) \in cfs /\ ~last'.had
           /\ last'.res # Err("DeleteNodeError") ) =>
           /\ last'.res = Ok(Unit)
           /\ store' = store ]_vars

\* C30, amended: as C30, for a remove_edge whose edge family exists; when the
\* family is missing the call fails with EdgeFamilyError before it looks the
\* key up.
C30_RemoveAbsentInFamily ==
  [][ /\ ( /\ last'.op = "remove_edge"
           /\ family_name(last'.arg.kind) \in cfs
           /\ << family_name(last'.arg.kind), last'.arg.s >> \notin DOMAIN store ) =>
           /\ last'.res = Err("FindKeyError")
           /\ store' = store
      /\ ( /\ last'.op = "remove_edge"
           /\ family_name(last'.arg.kind) \notin cfs ) =>
           /\ last'.res = Err("EdgeFamilyError")
           /\ store' = store
      /\ ( /\ last'.op = "remove_node"
           /\ split_next(last'.arg) \in cfs /\ ~last'.had
           /\ last'.res # Err("DeleteNodeError") ) =>
           /\ last'.res = Ok(Unit)
           /\ store' = store ]_vars

\* remove_edge has failed with FindKeyError on a store that holds another
\* edge record.
C30_Witness ==
  /\ last.op = "remove_edge" /\ last.res = Err("FindKeyError")
  /\ family_name(last.arg.kind) \in cfs
  /\ stored_edges(store) # {}

\* C31: add_edge does not need its endpoint nodes to be stored: once
\* add_edge(e, a, b) has returned success, a record is stored under a.id and
\* one under b.id, whether or not those keys held a record when it was called,
\* and each lists e.id (the node objects are written whole by update_node).
C31_AddEdgeWritesEndpoints ==
  (last.op = "add_edge" /\ last.res.tag = "Ok") =>
    /\ read_node(last.from_id).tag = "Ok"
    /\ last.edge.id \in Range(read_node(last.from_id).val.out_edge_ids)
    /\ read_node(last.to_id).tag = "Ok"
    /\ last.edge.id \in Range(read_node(last.to_id).val.in_edge_ids)

\* add_edge has succeeded on two node objects neither of which was stored.
C31_Witness ==
  /\ last.op = "add_edge" /\ last.res.tag = "Ok"
  /\ << family_name(kind_of(last.from_id)), last.from_id >> \in last.absent
  /\ << family_name(kind_of(last.to_id)), last.to_id >> \in last.absent

\* C32: no stored node lists the same edge id twice, as inbound or as
\* outbound, also after add_edge has been called twice with the same edge on
\* node objects read back from the store.
C32_NoDuplicateRefs ==
  \A n \in stored_nodes(store) : distinct(n.in_edge_ids) /\ distinct(n.out_edge_ids)


\* C33: when two add_edge calls of the icy engine on the same stored source
\* node, made by two threads, have both returned success, the stored node
\* lists the target of each.
C33_ConcurrentAddEdgeKeepsBoth ==
  \A t1, t2 \in Threads :
    ( /\ t1 # t2
      /\ calls[t1].pc = "idle" /\ calls[t1].res.tag = "Ok"
      /\ calls[t2].pc = "idle" /\ calls[t2].res.tag = "Ok"
      /\ calls[t1].from_id = calls[t2].from_id ) =>
      /\ icy_read_node(store, cfs, calls[t1].from_id).tag = "Ok"
      /\ { calls[t1].to_id, calls[t2].to_id } \subseteq
           Range(icy_read_node(store, cfs, calls[t1].from_id).val.nbs)


\* The neighbour list of the node stored under an id in its family, and
\* whether there is one.
is_stored(s, node_id) == << split_next(node_id), node_id >> \in DOMAIN s
stored_nbs(s, node_id) == s[<< split_next(node_id), node_id >>][2]

\* The store differs from the earlier one in the neighbour list of one node
\* only: the entry at index i is gone and the others keep their order.
only_entry_removed(s, s2, node_id, i) ==
  LET k == << split_next(node_id), node_id >> IN
  /\ DOMAIN s2 = DOMAIN s
  /\ \A x \in DOMAIN s \ { k } : s2[x] = s[x]
  /\ s2[k][1] = s[k][1] /\ s2[k][3] = s[k][3]
  /\ Len(s2[k][2]) = Len(s[k][2]) - 1
  /\ \A j \in 1..Len(s2[k][2]) : s2[k][2][j] = IF j < i THEN s[k][2][j] ELSE s[k][2][j + 1]

\* A remove_edge step on a stored source node: with the target in the list
\* the call succeeds and exactly its first occurrence goes, without it the
\* call fails with NeighbourIndexError and the store is as it was.
remove_edge_on_stored ==
  (last'.op = "remove_edge" /\ is_stored(store, last'.from_id)) =>
    IF last'.to_id \in Range(stored_nbs(store, last'.from_id))
    THEN /\ last'.res = Ok(<< >>)
         /\ \E i \in DOMAIN stored_nbs(store, last'.from_id) :
              /\ stored_nbs(store, last'.from_id)[i] = last'.to_id
              /\ \A j \in 1..(i - 1) : stored_nbs(store, last'.from_id)[j] # last'.to_id
              /\ only_entry_removed(store, store', last'.from_id, i)
    ELSE last'.res = Err("NeighbourIndexError") /\ store' = store

\* C34: remove_edge(from, to) of the icy engine removes exactly the first
\* occurrence of to from the stored source node's neighbour list and keeps the
\* others in order; when to is not in the list it fails with
\* NeighbourIndexError, and when the source node is not stored it fails with
\* FindKeyError, the store unchanged in both cases.
C34_RemoveEdge ==
  [][ /\ remove_edge_on_stored
      /\ (last'.op = "remove_edge" /\ ~is_stored(store, last'.from_id)) =>
           (last'.res = Err("FindKeyError") /\ store' = store) ]_vars

\* C34, amended: as above, but a source node that is not stored gives
\* FindKeyError only when the family of its kind exists; when the database
\* has no such family the call fails with NodeFamilyError, the store
\* unchanged.
C34_RemoveEdgeInFamily ==
  [][ /\ remove_edge_on_stored
      /\ (last'.op = "remove_edge" /\ ~is_stored(store, last'.from_id)) =>
           /\ store' = store
           /\ last'.res = IF split_next(last'.from_id) \in cfs
                          THEN Err("FindKeyError") ELSE Err("NodeFamilyError") ]_vars

\* A remove_edge that succeeded on a list holding the target more than once:
\* the stored list still holds it.
C34_Witness ==
  /\ last.op = "remove_edge" /\ last.res.tag = "Ok"
  /\ is_stored(store, last.from_id)
  /\ last.to_id \in Range(stored_nbs(store, last.from_id))
  /\ Len(stored_nbs(store, last.from_id)) >= 2

====
